---- MODULE Spec2Model ----
(***************************************************************************)
(* Model of src/main.py: the config loader, the fetcher and the renderer   *)
(* of the Advent of Code private-leaderboard command line tool.            *)
(*                                                                         *)
(* Text values are sequences of one-character strings.  A dict is a        *)
(* sequence of entries in insertion order.  A JSON object that may lack a  *)
(* key carries the set `has` of the keys it holds.                         *)
(***************************************************************************)
EXTENDS Integers, Sequences, FiniteSets, TLC

\* ------------------------------------------------------------------ bounds
MaxStrLen == 2
MaxMembers == 3
MaxScore == 1
MaxStars == 1
MaxDays == 3

\* ------------------------------------------------------------ text values
Whitespace == {" "}
Alphabet == {" ", "a", "-"}

RECURSIVE StringsUpTo(_)
StringsUpTo(n) ==
  IF n = 0 THEN {<<>>}
  ELSE LET shorter == StringsUpTo(n - 1)
       IN shorter \cup {Append(s, c) : s \in {t \in shorter : Len(t) = n - 1}, c \in Alphabet}

Typed == StringsUpTo(MaxStrLen)

RECURSIVE lstrip(_)
lstrip(s) ==
  IF s = <<>> THEN s
  ELSE IF Head(s) \in Whitespace THEN lstrip(Tail(s)) ELSE s

RECURSIVE rstrip(_)
rstrip(s) ==
  IF s = <<>> THEN s
  ELSE IF s[Len(s)] \in Whitespace THEN rstrip(SubSeq(s, 1, Len(s) - 1)) ELSE s

\* str.strip()
strip(s) == rstrip(lstrip(s))

RECURSIVE split_first(_)
\* str.split("-")[0]: the text before the first "-"
split_first(s) ==
  IF s = <<>> THEN s
  ELSE IF Head(s) = "-" THEN <<>> ELSE <<Head(s)>> \o split_first(Tail(s))

\* ------------------------------------------------------------ config files
Keys == {"team", "board", "cookie"}
Absent == [exists |-> FALSE, text |-> <<>>]
FileOf(t) == [exists |-> TRUE, text |-> t]

\* What a config file may hold before the first run: nothing at all, an empty
\* or blank text, or a value with or without blanks around it.
InitialTexts == {<<>>, <<" ">>, <<"a">>, <<"a", " ">>, <<" ", "a">>, <<"a", "-">>}
FileStates == {Absent} \cup {FileOf(t) : t \in InitialTexts}

\* not f.exists() or f.read_text().strip() == ""
NeedsPrompt(f) == ~f.exists \/ strip(f.text) = <<>>


\* ------------------------------------------------------- leaderboard JSON
\* A day key is the decimal text of the day number.
DayKeys == {<<"1">>, <<"2">>, <<"9">>, <<"1", "0">>, <<"0", "2">>}
LevelSets == {{}, {"1"}, {"1", "2"}}

DigitValue(c) ==
  CASE c = "0" -> 0 [] c = "1" -> 1 [] c = "2" -> 2 [] c = "3" -> 3 [] c = "4" -> 4
    [] c = "5" -> 5 [] c = "6" -> 6 [] c = "7" -> 7 [] c = "8" -> 8 [] c = "9" -> 9

RECURSIVE int(_)
\* int(text) for a text of decimal digits
int(s) ==
  IF s = <<>> THEN 0
  ELSE 10 * int(SubSeq(s, 1, Len(s) - 1)) + DigitValue(s[Len(s)])

RECURSIVE TupleLess(_, _)
\* a < b for tuples of integers, as Python compares tuples
TupleLess(a, b) ==
  IF a = <<>> THEN b # <<>>
  ELSE IF b = <<>> THEN FALSE
  ELSE IF Head(a) # Head(b) THEN Head(a) < Head(b)
  ELSE TupleLess(Tail(a), Tail(b))

\* the list with every item paired with its sort key, keys[i] being xs[i]'s
Decorate(xs, keys) == [i \in 1..Len(xs) |-> [key |-> keys[i], val |-> xs[i]]]

Undecorate(ds) == [i \in 1..Len(ds) |-> ds[i].val]

RECURSIVE Insert(_, _)
\* d placed into the ascending list ds after every item whose key is not greater
Insert(d, ds) ==
  IF ds = <<>> THEN <<d>>
  ELSE IF TupleLess(d.key, Head(ds).key) THEN <<d>> \o ds
       ELSE <<Head(ds)>> \o Insert(d, Tail(ds))

RECURSIVE StableSort(_)
\* list.sort on decorated items: ascending by key, equal keys keep their order
StableSort(ds) ==
  IF ds = <<>> THEN <<>>
  ELSE Insert(ds[Len(ds)], StableSort(SubSeq(ds, 1, Len(ds) - 1)))

Reverse(xs) == [i \in 1..Len(xs) |-> xs[Len(xs) + 1 - i]]

\* "*" * n
Stars(n) == [i \in 1..n |-> "*"]

NoDaysYet == [text |-> "No days yet", rows |-> <<>>]

\* sorted(completion_day_level.keys()): the keys compared as texts
DayText(entry) == [i \in 1..Len(entry.day) |-> DigitValue(entry.day[i])]

DayInt(entry) == <<int(entry.day)>>

\* sorted(completion_day_level.keys(), key=int)
SortedDays(completion_day_level) ==
  Undecorate(StableSort(Decorate(completion_day_level,
    [i \in 1..Len(completion_day_level) |-> DayInt(completion_day_level[i])])))

\* completion_day_level: the entries [day, levels] of the dict in insertion order
format_completion_days(completion_day_level) ==
  IF completion_day_level = <<>> THEN NoDaysYet
  ELSE LET days == SortedDays(completion_day_level)
       IN [text |-> "sub_table",
           rows |-> [i \in 1..Len(days) |->
                       [day |-> <<"D", "a", "y", " ">> \o days[i].day,
                        stars |-> Stars(Cardinality(days[i].levels))]]]

\* ---------------------------------------------------------------- renderer
MemberKeys == {"name", "stars", "local_score", "last_star_ts", "completion_day_level"}

\* the rank cell '-' of a row that has no number (numbers start at 1)
Placeholder == 0

NoStarsEarnedYet == [text |-> "No stars earned yet", ts |-> 0]

\* last_star_ts.strftime("%Y-%m-%d %H:%M:%S"): a date text, never the literal above
strftime(ts) == [text |-> "%Y-%m-%d %H:%M:%S", ts |-> ts]

last_star_earned(last_star_unix_ts) ==
  IF last_star_unix_ts = 0 THEN NoStarsEarnedYet ELSE strftime(last_star_unix_ts)

\* one row of table_data; id is the member's place in members.items()
Row(member_id, member_info) ==
  [no |-> Placeholder,
   id |-> member_id,
   name |-> member_info.name,
   days |-> format_completion_days(member_info.completion_day_level),
   stars |-> member_info.stars,
   local_score |-> member_info.local_score,
   last |-> last_star_earned(member_info.last_star_ts)]

\* a subscript of member_info raises KeyError
RowRaises(member_info) == member_info.has # MemberKeys

table_data(members) == [i \in 1..Len(members) |-> Row(i, members[i])]

\* key=lambda x: (x[4], x[3])
SortKey(row) == <<row.local_score, row.stars>>

SortKeys(rows) == [i \in 1..Len(rows) |-> SortKey(rows[i])]

\* sorted ascending and then reversed: rows with equal keys change places
SortThenReverse(rows) == Reverse(Undecorate(StableSort(Decorate(rows, SortKeys(rows)))))

\* list.sort(key=..., reverse=True): the list is reversed, sorted ascending
\* and reversed again, so rows with equal keys keep their order
SortRows(rows) ==
  Reverse(Undecorate(StableSort(Decorate(Reverse(rows), SortKeys(Reverse(rows))))))

\* a row is numbered when its member has a star
RankedByStars(row) == row.stars # 0

Ranked(row) == row.last # NoStarsEarnedYet

RECURSIVE NumberEveryRow(_, _)
\* no advances on every row, numbered or not
NumberEveryRow(rows, no) ==
  IF rows = <<>> THEN <<>>
  ELSE IF Ranked(Head(rows))
       THEN <<[Head(rows) EXCEPT !.no = no]>> \o NumberEveryRow(Tail(rows), no + 1)
       ELSE <<Head(rows)>> \o NumberEveryRow(Tail(rows), no + 1)

RECURSIVE Number(_, _)
\* the loop of lines 72-76 over the sorted rows, no being the next number
Number(rows, no) ==
  IF rows = <<>> THEN <<>>
  ELSE IF Ranked(Head(rows))
       THEN <<[Head(rows) EXCEPT !.no = no]>> \o Number(Tail(rows), no + 1)
       ELSE <<Head(rows)>> \o Number(Tail(rows), no)

NoTable == <<>>

\* The effect of display_leaderboard(data, team_name): what it prints, in
\* order, the rows of the table it prints, and whether it raised.
display_leaderboard(data, t_name) ==
  IF ~({"event", "members"} \subseteq data.has)
  THEN [log |-> <<>>, table |-> NoTable, raised |-> TRUE]
  ELSE IF \E i \in 1..Len(data.members) : RowRaises(data.members[i])
  THEN [log |-> <<"banner">>, table |-> NoTable, raised |-> TRUE]
  ELSE [log |-> <<"banner", "table">>,
        table |-> Number(SortRows(table_data(data.members)), 1),
        raised |-> FALSE]

\* ----------------------------------------------------------------- fetcher
StatusCodes == {200, 204, 302, 400, 401, 403, 404, 500}

\* httpx Response.is_success
is_success(code) == code \in 200..299

NoData == [has |-> {}, event |-> <<>>, members |-> <<>>]
Data(members) == [has |-> {"event", "members"}, event |-> <<"2", "0", "2", "5">>, members |-> members]

Member(stars, local_score, last_star_ts, completion_day_level) ==
  [has |-> MemberKeys, name |-> <<"a">>, stars |-> stars, local_score |-> local_score,
   last_star_ts |-> last_star_ts, completion_day_level |-> completion_day_level]

Lacking(member_info, k) == [member_info EXCEPT !.has = MemberKeys \ {k}]

\* the members of the end-to-end example of the documentation
Alice ==
  Member(5, 120, 1733000000,
         <<[day |-> <<"1">>, levels |-> {"1", "2"}], [day |-> <<"2">>, levels |-> {"1"}]>>)
Bob == Member(0, 0, 0, <<>>)

\* JSON bodies a 200 response may carry
Bodies ==
  {[NoData EXCEPT !.has = {"members"}], [NoData EXCEPT !.has = {"event"}],
   Data(<<>>), Data(<<Alice>>), Data(<<Bob, Alice>>), Data(<<Alice, Lacking(Bob, "name")>>)}
  \cup {Data(<<Lacking(Alice, k)>>) : k \in MemberKeys}

NoResponse == [transport_error |-> FALSE, code |-> 0, valid_json |-> FALSE, data |-> NoData]

\* What the network may answer to the GET: a transport failure, a status
\* without a JSON body, or a 200 with a JSON body.
Responses ==
  {[NoResponse EXCEPT !.transport_error = TRUE]}
  \cup {[NoResponse EXCEPT !.code = c] : c \in StatusCodes}
  \cup {[NoResponse EXCEPT !.code = 200, !.valid_json = TRUE, !.data = d] : d \in Bodies}

\* the Cookie header fetch_leaderboard sends; <<>> when it sends none
CookieHeader(cookie) ==
  IF cookie # <<>> THEN <<"s", "e", "s", "s", "i", "o", "n", "=">> \o cookie ELSE <<>>

\* how fetch_leaderboard ends on a response
fetch_leaderboard(r) ==
  IF r.transport_error THEN "Exception"
  ELSE IF ~is_success(r.code) THEN "HTTPStatusError"
  ELSE IF ~r.valid_json THEN "Exception"
  ELSE "return"

\* the hint for 401 alone
NeedsAuthHintOnly401(code) == code = 401

\* e.response.status_code == 401 or e.response.status_code == 400
NeedsAuthHint(code) == code = 401 \/ code = 400

\* ------------------------------------------------------------------ inputs
RECURSIVE DictsUpTo(_)
\* every completion_day_level of at most n days: distinct keys, any key order
DictsUpTo(n) ==
  IF n = 0 THEN {<<>>}
  ELSE LET shorter == DictsUpTo(n - 1)
       IN shorter \cup
          UNION {{Append(d, [day |-> k, levels |-> l]) :
                    k \in DayKeys \ {d[i].day : i \in 1..Len(d)}, l \in LevelSets} :
                 d \in {e \in shorter : Len(e) = n - 1}}

LastStarTimes == {0, 1733000000}

\* the members the renderer is checked on: every combination of the fields
\* that decide a row's place and number
RenderMembers ==
  {Member(st, sc, ts, IF st = 0 THEN <<>> ELSE <<[day |-> <<"1">>, levels |-> {"1"}]>>) :
     st \in 0..MaxStars, sc \in 0..MaxScore, ts \in LastStarTimes}

RECURSIVE ListsUpTo(_, _)
ListsUpTo(n, S) ==
  IF n = 0 THEN {<<>>}
  ELSE LET shorter == ListsUpTo(n - 1, S)
       IN shorter \cup {Append(xs, x) : xs \in {ys \in shorter : Len(ys) = n - 1}, x \in S}

\* ------------------------------------------------------------------- state
VARIABLES
  files,            \* the three config files of the working directory
  pc,               \* where the run of main stands
  team_name, leaderboard_id, session_cookie,   \* main's locals
  typed,            \* what the latest input() of this run returned
  prompted,         \* the keys this run prompted for
  promptedBefore,   \* per key: how the latest prompt of an earlier run ended
  requests,         \* the GETs this run issued
  response,         \* the answer to the GET
  log,              \* what this run printed, in order
  table,            \* the rows of the table this run printed
  exit_status,      \* the exit status, once pc = "done"
  day_levels,       \* argument of format_completion_days
  sub_table         \* its result

vars ==
  <<files, pc, team_name, leaderboard_id, session_cookie, typed, prompted, promptedBefore,
    requests, response, log, table, exit_status, day_levels, sub_table>>

NotFormatted == [text |-> "", rows |-> <<>>]

\* the locals and outputs of a run before its first statement
RunStart ==
  /\ pc = "team"
  /\ team_name = <<>> /\ leaderboard_id = <<>> /\ session_cookie = <<>>
  /\ typed = <<>> /\ prompted = {}
  /\ requests = <<>> /\ response = NoResponse
  /\ log = <<>> /\ table = NoTable /\ exit_status = 0

Init ==
  /\ files \in [Keys -> FileStates]
  /\ promptedBefore = [k \in Keys |-> "never"]
  /\ RunStart
  /\ day_levels = <<>> /\ sub_table = NotFormatted

\* lines 85-91
LoadTeamName ==
  /\ pc = "team"
  /\ IF NeedsPrompt(files["team"])
     THEN \E t \in Typed :
            /\ typed' = t
            /\ team_name' = strip(t)
            /\ files' = [files EXCEPT !["team"] = FileOf(strip(t))]
            /\ log' = log \o <<"warn_team", "prompt_team">>
            /\ prompted' = prompted \cup {"team"}
     ELSE /\ typed' = <<>>
          /\ team_name' = files["team"].text
          /\ UNCHANGED <<files, log, prompted>>
  /\ pc' = "board"
  /\ UNCHANGED <<leaderboard_id, session_cookie, promptedBefore, requests, response, table,
                 exit_status, day_levels, sub_table>>

\* the prompt's value is used but never written to the file
LoadLeaderboardIdNoWrite ==
  /\ pc = "board"
  /\ IF NeedsPrompt(files["board"])
     THEN \E t \in Typed :
            /\ typed' = t
            /\ leaderboard_id' = split_first(strip(t))
            /\ log' = log \o <<"warn_board", "prompt_board">>
            /\ prompted' = prompted \cup {"board"}
            /\ UNCHANGED files
     ELSE /\ typed' = <<>>
          /\ leaderboard_id' = files["board"].text
          /\ UNCHANGED <<files, log, prompted>>
  /\ pc' = "cookie"
  /\ UNCHANGED <<team_name, session_cookie, promptedBefore, requests, response, table,
                 exit_status, day_levels, sub_table>>

\* lines 93-99
LoadLeaderboardId ==
  /\ pc = "board"
  /\ IF NeedsPrompt(files["board"])
     THEN \E t \in Typed :
            /\ typed' = t
            /\ leaderboard_id' = split_first(strip(t))
            /\ files' = [files EXCEPT !["board"] = FileOf(split_first(strip(t)))]
            /\ log' = log \o <<"warn_board", "prompt_board">>
            /\ prompted' = prompted \cup {"board"}
     ELSE /\ typed' = <<>>
          /\ leaderboard_id' = files["board"].text
          /\ UNCHANGED <<files, log, prompted>>
  /\ pc' = "cookie"
  /\ UNCHANGED <<team_name, session_cookie, promptedBefore, requests, response, table,
                 exit_status, day_levels, sub_table>>

\* lines 105-116
LoadCookie ==
  /\ pc = "cookie"
  /\ IF NeedsPrompt(files["cookie"])
     THEN \E t \in Typed :
            /\ typed' = t
            /\ session_cookie' = strip(t)
            /\ files' = [files EXCEPT !["cookie"] = FileOf(strip(t))]
            /\ log' = log \o <<"warn_cookie", "prompt_cookie">>
            /\ prompted' = prompted \cup {"cookie"}
     ELSE /\ typed' = <<>>
          /\ session_cookie' = files["cookie"].text
          /\ UNCHANGED <<files, log, prompted>>
  /\ pc' = "check"
  /\ UNCHANGED <<team_name, leaderboard_id, promptedBefore, requests, response, table,
                 exit_status, day_levels, sub_table>>

\* the warning is printed and the run goes on to the request
CheckCookieWarnOnly ==
  /\ pc = "check"
  /\ IF strip(session_cookie) = <<>>
     THEN log' = Append(log, "warn_no_cookie")
     ELSE UNCHANGED log
  /\ pc' = "fetch"
  /\ UNCHANGED <<files, team_name, leaderboard_id, session_cookie, typed, prompted,
                 promptedBefore, requests, response, table, exit_status, day_levels,
                 sub_table>>

\* lines 117-119
CheckCookie ==
  /\ pc = "check"
  /\ IF strip(session_cookie) = <<>>
     THEN /\ log' = Append(log, "warn_no_cookie")
          /\ exit_status' = 1
          /\ pc' = "done"
     ELSE /\ pc' = "fetch"
          /\ UNCHANGED <<log, exit_status>>
  /\ UNCHANGED <<files, team_name, leaderboard_id, session_cookie, typed, prompted,
                 promptedBefore, requests, response, table, day_levels, sub_table>>

\* a failed request is tried once more
FetchRetry ==
  /\ pc = "fetch"
  /\ \E r \in Responses :
       /\ requests' = Append(requests, [id |-> leaderboard_id,
                                        cookie |-> CookieHeader(session_cookie)])
       /\ response' = r
       /\ IF fetch_leaderboard(r) = "return"
          THEN /\ pc' = "display"
               /\ UNCHANGED <<log, exit_status>>
          ELSE IF requests = <<>>
          THEN /\ pc' = "fetch"
               /\ UNCHANGED <<log, exit_status>>
          ELSE /\ log' = Append(log, "error")
               /\ exit_status' = 0
               /\ pc' = "done"
  /\ UNCHANGED <<files, team_name, leaderboard_id, session_cookie, typed, prompted,
                 promptedBefore, table, day_levels, sub_table>>

\* line 122 and, when fetch_leaderboard raises, lines 124-129
Fetch ==
  /\ pc = "fetch"
  /\ \E r \in Responses :
       /\ requests' = Append(requests, [id |-> leaderboard_id,
                                        cookie |-> CookieHeader(session_cookie)])
       /\ response' = r
       /\ CASE fetch_leaderboard(r) = "return" ->
                 /\ pc' = "display"
                 /\ UNCHANGED <<log, exit_status>>
            [] fetch_leaderboard(r) = "HTTPStatusError" ->
                 /\ log' = log \o <<"http_error">>
                             \o (IF NeedsAuthHint(r.code) THEN <<"auth_hint">> ELSE <<>>)
                 /\ exit_status' = 0
                 /\ pc' = "done"
            [] fetch_leaderboard(r) = "Exception" ->
                 /\ log' = Append(log, "error")
                 /\ exit_status' = 0
                 /\ pc' = "done"
  /\ UNCHANGED <<files, team_name, leaderboard_id, session_cookie, typed, prompted,
                 promptedBefore, table, day_levels, sub_table>>

\* display_leaderboard(data, team_name) as main calls it
Displayed == display_leaderboard(response.data, team_name)

\* an error of display_leaderboard ends the run with status 1
DisplayExitOnError ==
  /\ pc = "display"
  /\ log' = log \o Displayed.log \o (IF Displayed.raised THEN <<"error">> ELSE <<>>)
  /\ table' = Displayed.table
  /\ exit_status' = IF Displayed.raised THEN 1 ELSE 0
  /\ pc' = "done"
  /\ UNCHANGED <<files, team_name, leaderboard_id, session_cookie, typed, prompted,
                 promptedBefore, requests, response, day_levels, sub_table>>

\* line 123 and, when display_leaderboard raises, lines 128-129
Display ==
  /\ pc = "display"
  /\ log' = log \o Displayed.log \o (IF Displayed.raised THEN <<"error">> ELSE <<>>)
  /\ table' = Displayed.table
  /\ exit_status' = 0
  /\ pc' = "done"
  /\ UNCHANGED <<files, team_name, leaderboard_id, session_cookie, typed, prompted,
                 promptedBefore, requests, response, day_levels, sub_table>>

\* the program is started again in the same working directory
NewRun ==
  /\ pc = "done"
  /\ promptedBefore' =
       [k \in Keys |->
          IF k \in prompted
          THEN IF strip(files[k].text) = <<>> THEN "blank" ELSE "nonblank"
          ELSE promptedBefore[k]]
  /\ pc' = "team"
  /\ team_name' = <<>> /\ leaderboard_id' = <<>> /\ session_cookie' = <<>>
  /\ typed' = <<>> /\ prompted' = {}
  /\ requests' = <<>> /\ response' = NoResponse
  /\ log' = <<>> /\ table' = NoTable /\ exit_status' = 0
  /\ UNCHANGED <<files, day_levels, sub_table>>

Next ==
  \/ LoadTeamName
  \/ LoadLeaderboardId
  \/ LoadCookie
  \/ CheckCookie
  \/ Fetch
  \/ Display
  \/ NewRun

Spec == Init /\ [][Next]_vars

\* ---------------------------------------- display_leaderboard on its inputs
InitRender ==
  /\ files = [k \in Keys |-> FileOf(<<"a">>)]
  /\ promptedBefore = [k \in Keys |-> "never"]
  /\ pc = "display"
  /\ team_name = <<"a">> /\ leaderboard_id = <<"a">> /\ session_cookie = <<"a">>
  /\ typed = <<>> /\ prompted = {}
  /\ requests = <<[id |-> <<"a">>, cookie |-> CookieHeader(<<"a">>)]>>
  /\ \E ms \in ListsUpTo(MaxMembers, RenderMembers) :
       response = [NoResponse EXCEPT !.code = 200, !.valid_json = TRUE, !.data = Data(ms)]
  /\ log = <<>> /\ table = NoTable /\ exit_status = 0
  /\ day_levels = <<>> /\ sub_table = NotFormatted

SpecRender == InitRender /\ [][Display]_vars

\* -------------------------------------- format_completion_days on its inputs
InitDays ==
  /\ files = [k \in Keys |-> Absent]
  /\ promptedBefore = [k \in Keys |-> "never"]
  /\ pc = "days"
  /\ team_name = <<>> /\ leaderboard_id = <<>> /\ session_cookie = <<>>
  /\ typed = <<>> /\ prompted = {}
  /\ requests = <<>> /\ response = NoResponse
  /\ log = <<>> /\ table = NoTable /\ exit_status = 0
  /\ day_levels \in DictsUpTo(MaxDays)
  /\ sub_table = NotFormatted

FormatDays ==
  /\ pc = "days"
  /\ sub_table' = format_completion_days(day_levels)
  /\ pc' = "formatted"
  /\ UNCHANGED <<files, team_name, leaderboard_id, session_cookie, typed, prompted,
                 promptedBefore, requests, response, log, table, exit_status, day_levels>>

SpecDays == InitDays /\ [][FormatDays]_vars

\* ================================================================== claims
\* the members mapping handed to display_leaderboard, in input order
Members == response.data.members

TablePrinted == pc = "done" /\ \E i \in 1..Len(log) : log[i] = "table"

\* the member a row of the table was built from
MemberOf(row) == Members[row.id]

\* (a.local_score, a.stars) > (b.local_score, b.stars), lexicographically
PairGreater(a, b) ==
  \/ a.local_score > b.local_score
  \/ a.local_score = b.local_score /\ a.stars > b.stars

PairEqual(a, b) == a.local_score = b.local_score /\ a.stars = b.stars

\* the table holds one row per member, carrying the member's fields
OneRowPerMember ==
  /\ Len(table) = Len(Members)
  /\ {table[i].id : i \in 1..Len(table)} = 1..Len(Members)
  /\ \A i \in 1..Len(table) :
       /\ table[i].stars = MemberOf(table[i]).stars
       /\ table[i].local_score = MemberOf(table[i]).local_score

\* C1: in the printed table a member with the greater (local_score, stars)
\* pair stands above one with the smaller pair, and members with equal pairs
\* stand in the order of the input mapping.
C1_SortedStable ==
  TablePrinted =>
    /\ OneRowPerMember
    /\ \A i, j \in 1..Len(table) :
         i < j =>
           \/ PairGreater(MemberOf(table[i]), MemberOf(table[j]))
           \/ /\ PairEqual(MemberOf(table[i]), MemberOf(table[j]))
              /\ table[i].id < table[j].id

\* a table of three rows whose input was not in order: the last member of the
\* input stands on top and the two others, with equal pairs, keep their order
C1_Witness ==
  /\ TablePrinted
  /\ Len(table) = 3
  /\ table[1].id = 3
  /\ PairGreater(MemberOf(table[1]), MemberOf(table[2]))
  /\ PairEqual(MemberOf(table[2]), MemberOf(table[3]))
  /\ table[2].id = 1 /\ table[3].id = 2

\* the rows above row i, and row i, whose member has last_star_ts # 0
RankedUpTo(i) == {j \in 1..i : MemberOf(table[j]).last_star_ts # 0}

\* C2: every member with last_star_ts = 0 has rank '-', and the members with
\* last_star_ts # 0 carry the numbers 1..k from top to bottom of the sorted
\* table: a row with last_star_ts = 0 consumes no number.
C2_RankNumbers ==
  TablePrinted =>
    /\ OneRowPerMember
    /\ \A i \in 1..Len(table) :
         IF MemberOf(table[i]).last_star_ts = 0
         THEN table[i].no = Placeholder
         ELSE table[i].no = Cardinality(RankedUpTo(i))

\* a row without number stands between the rows numbered 1 and 2
C2_Witness ==
  /\ TablePrinted
  /\ Len(table) = 3
  /\ table[1].no = 1
  /\ MemberOf(table[2]).last_star_ts = 0 /\ table[2].no = Placeholder
  /\ table[3].no = 2

\* C3 as claimed: a number is given only to members with a star, and every
\* member with no star keeps '-', whatever stars and last_star_ts are.
C3_NumberOnlyWithStars ==
  TablePrinted =>
    \A i \in 1..Len(table) :
      /\ table[i].no # Placeholder => MemberOf(table[i]).stars >= 1
      /\ MemberOf(table[i]).stars = 0 => table[i].no = Placeholder

\* C3 amended: a row is numbered exactly when its member's last_star_ts is not
\* 0, whatever stars is; so among the members whose stars and last_star_ts
\* agree (stars = 0 exactly when last_star_ts = 0) a number is given only to
\* members with a star and every member with no star keeps '-'.
C3_NumberByLastStar ==
  TablePrinted =>
    \A i \in 1..Len(table) :
      LET m == MemberOf(table[i])
      IN /\ table[i].no # Placeholder <=> m.last_star_ts # 0
         /\ (m.stars = 0 <=> m.last_star_ts = 0) =>
              /\ table[i].no # Placeholder => m.stars >= 1
              /\ m.stars = 0 => table[i].no = Placeholder

\* a member with no star and a last_star_ts is numbered, beside a member with
\* no star and no last_star_ts, who is not
C3_Witness ==
  /\ TablePrinted
  /\ \E i, j \in 1..Len(table) :
       /\ MemberOf(table[i]).stars = 0 /\ MemberOf(table[i]).last_star_ts # 0
       /\ table[i].no # Placeholder
       /\ MemberOf(table[j]).stars = 0 /\ MemberOf(table[j]).last_star_ts = 0
       /\ table[j].no = Placeholder

\* the day number a row of the sub-table shows after "Day "
DayShown(row) == SubSeq(row.day, 5, Len(row.day))

DayNumber(text) ==
  CASE text = <<"1">> -> 1 [] text = <<"2">> -> 2 [] text = <<"0", "2">> -> 2
    [] text = <<"9">> -> 9 [] text = <<"1", "0">> -> 10

\* C4: for a non-empty completion_day_level the sub-table has one row per day
\* key, the rows ascend by day number whatever the order of the keys, and a
\* row holds as many '*' as the day has entries.
C4_DaysAscending ==
  (pc = "formatted" /\ day_levels # <<>>) =>
    /\ Len(sub_table.rows) = Len(day_levels)
    /\ \A e \in 1..Len(day_levels) :
         \E r \in 1..Len(sub_table.rows) :
           /\ sub_table.rows[r].day = <<"D", "a", "y", " ">> \o day_levels[e].day
           /\ sub_table.rows[r].stars = [i \in 1..Cardinality(day_levels[e].levels) |-> "*"]
    /\ \A r, q \in 1..Len(sub_table.rows) :
         r < q => DayNumber(DayShown(sub_table.rows[r])) <= DayNumber(DayShown(sub_table.rows[q]))

\* days 10, 9 and 1 given in that order come out as 1, 9, 10
C4_Witness ==
  /\ pc = "formatted"
  /\ Len(day_levels) = 3
  /\ day_levels[1].day = <<"1", "0">> /\ day_levels[2].day = <<"9">>
  /\ day_levels[3].day = <<"1">>
  /\ DayShown(sub_table.rows[1]) = <<"1">>
  /\ DayShown(sub_table.rows[3]) = <<"1", "0">>
  /\ Len(sub_table.rows[3].stars) = 2

\* --------------------------------------------------------- claims on main
Printed(event) == \E i \in 1..Len(log) : log[i] = event

LastPrinted(event) == log # <<>> /\ log[Len(log)] = event

\* the run is past the statement that tests the session cookie
PastCheck == pc \in {"fetch", "display", "done"}

\* C5: when the cookie file is missing or blank and a blank value is entered,
\* the empty text is written to the cookie file, the warning is printed, the
\* run exits with status 1 and issues no request; and no request of any run
\* carries a blank session cookie.
C5_NoRequestWithoutCookie ==
  /\ ("cookie" \in prompted /\ strip(typed) = <<>> /\ PastCheck) =>
       /\ pc = "done"
       /\ exit_status = 1
       /\ files["cookie"] = FileOf(<<>>)
       /\ LastPrinted("warn_no_cookie")
       /\ requests = <<>>
  /\ \A i \in 1..Len(requests) :
       /\ strip(session_cookie) # <<>>
       /\ requests[i].cookie = <<"s", "e", "s", "s", "i", "o", "n", "=">> \o session_cookie

\* the cookie file held a blank, a blank was typed, and the run ended with 1
C5_Witness ==
  /\ pc = "done"
  /\ "cookie" \in prompted
  /\ typed = <<" ">>
  /\ files["cookie"] = FileOf(<<>>)
  /\ exit_status = 1
  /\ requests = <<>>

\* the run is past the load step of key k
Loaded(k) ==
  CASE k = "team" -> pc \notin {"team"}
    [] k = "board" -> pc \notin {"team", "board"}
    [] k = "cookie" -> pc \notin {"team", "board", "cookie"}

\* the run has just taken the load step of key k
JustLoaded(k) ==
  CASE k = "team" -> pc = "board"
    [] k = "board" -> pc = "cookie"
    [] k = "cookie" -> pc = "check"

\* what the load step of key k makes of the text t that was typed
Entered(k, t) == IF k = "board" THEN split_first(strip(t)) ELSE strip(t)

\* a run that passed the load step of k without a prompt found a value in
\* the file; a run that prompted wrote what it made of the typed text
PromptsWhenBlankAndWrites ==
  \A k \in Keys :
    /\ (Loaded(k) /\ k \notin prompted) => (files[k].exists /\ strip(files[k].text) # <<>>)
    /\ (JustLoaded(k) /\ k \in prompted) => files[k] = FileOf(Entered(k, typed))

\* C6 as claimed: once a run has prompted for a key and written the value,
\* no later run prompts for that key, whatever was entered.
C6_NeverPromptsAgain ==
  /\ PromptsWhenBlankAndWrites
  /\ \A k \in Keys : ~(k \in prompted /\ promptedBefore[k] # "never")

\* C6 amended: a run that finds the key's file absent or blank prompts and
\* writes the entered value, stripped (the leaderboard id also cut at its
\* first '-'), to the file; a later run does not prompt for the key again
\* when the written value is not blank, and prompts again when it is blank.
C6_PromptsAgainOnlyAfterBlank ==
  /\ PromptsWhenBlankAndWrites
  /\ \A k \in Keys :
       /\ promptedBefore[k] = "nonblank" => k \notin prompted
       /\ (promptedBefore[k] = "blank" /\ Loaded(k)) => k \in prompted

\* an earlier run wrote a team name and a blank leaderboard id; this run
\* skipped the first prompt and has just prompted for the second again
C6_Witness ==
  /\ promptedBefore["team"] = "nonblank"
  /\ promptedBefore["board"] = "blank"
  /\ pc = "cookie"
  /\ prompted = {"board"}
  /\ typed = <<"a", "-">>
  /\ files["board"] = FileOf(<<"a">>)

\* the request was answered with a status outside 2xx
StatusError == requests # <<>> /\ ~response.transport_error /\ response.code \notin 200..299

\* what the run printed after its config prompts
AfterLoad == SelectSeq(log, LAMBDA e : e \in {"http_error", "auth_hint", "error", "banner", "table"})

\* C7: after a status outside 2xx the run prints the HTTP Error line, and the
\* authentication hint exactly for 400 and 401; it issues no second request
\* and renders nothing.
C7_HttpErrorReport ==
  (pc = "done" /\ StatusError) =>
    /\ AfterLoad = IF response.code \in {400, 401}
                   THEN <<"http_error", "auth_hint">> ELSE <<"http_error">>
    /\ Len(requests) = 1
    /\ table = NoTable

C7_Witness ==
  /\ pc = "done"
  /\ StatusError
  /\ response.code = 400
  /\ LastPrinted("auth_hint")

\* C8: a run that reports an error has printed neither the banner nor the
\* table.
C8_NoOutputWithError ==
  (Printed("error") \/ Printed("http_error")) => ~(Printed("banner") \/ Printed("table"))

\* a step of the run is possible; Display has no other condition than
\* pc = "display"
CanStep ==
  \/ pc = "display"
  \/ ENABLED (LoadTeamName \/ LoadLeaderboardId \/ LoadCookie \/ CheckCookie \/ Fetch)

\* how far a run has come
PcRank(p) ==
  CASE p = "team" -> 1 [] p = "board" -> 2 [] p = "cookie" -> 3 [] p = "check" -> 4
    [] p = "fetch" -> 5 [] p = "display" -> 6 [] p = "done" -> 7

\* a run that has not ended can step; once ended, its status is 1 exactly
\* when the session cookie is blank, and 0 after a table or an error report
ExitStatusRule ==
  /\ pc # "done" => CanStep
  /\ pc = "done" =>
       /\ exit_status \in {0, 1}
       /\ exit_status = 1 <=> strip(session_cookie) = <<>>
       /\ exit_status = 1 <=> LastPrinted("warn_no_cookie")
       /\ (Printed("table") \/ Printed("error") \/ Printed("http_error")) => exit_status = 0

\* C9: every run ends (it can always step and every step brings it nearer its
\* end); it ends with status 1 exactly when the session cookie is blank
\* after the load step, and with status 0 when the leaderboard was displayed
\* or an error of the fetch or the display was caught and reported.
C9_ExitStatus ==
  /\ []ExitStatusRule
  /\ [][PcRank(pc') > PcRank(pc) \/ (pc = "done" /\ pc' = "team")]_vars

\* display_leaderboard raised, the error was reported and the status is 0
C9_Witness ==
  /\ pc = "done"
  /\ Printed("banner") /\ LastPrinted("error")
  /\ exit_status = 0

\* the step of main an output belongs to
Phase(event) ==
  CASE event \in {"warn_team", "prompt_team"} -> 1
    [] event \in {"warn_board", "prompt_board"} -> 2
    [] event \in {"warn_cookie", "prompt_cookie"} -> 3
    [] event = "warn_no_cookie" -> 4
    [] event \in {"banner", "table"} -> 6
    [] OTHER -> 7

\* C10: a run loads the config, then fetches, then renders: it issues at most
\* one request, only with the three values loaded; it prints nothing of the
\* leaderboard before the request was answered 2xx with a JSON body; and
\* after a failed request it issues no other.
C10_LoadFetchRender ==
  /\ Len(requests) <= 1
  /\ requests # <<>> =>
       /\ pc \in {"display", "done"}
       /\ team_name = files["team"].text
       /\ requests[1].id = files["board"].text
       /\ requests[1].cookie = CookieHeader(files["cookie"].text)
       /\ \A k \in Keys : files[k].exists
  /\ (Printed("banner") \/ Printed("table")) =>
       /\ Len(requests) = 1
       /\ ~response.transport_error /\ response.code \in 200..299 /\ response.valid_json
  /\ \A i, j \in 1..Len(log) : i < j => Phase(log[i]) <= Phase(log[j])
  /\ (requests # <<>> /\ (response.transport_error \/ response.code \notin 200..299
                          \/ ~response.valid_json)) =>
       /\ pc = "done"
       /\ table = NoTable

\* all three values were prompted for, one request was issued and the table
\* was printed
C10_Witness ==
  /\ pc = "done"
  /\ prompted = Keys
  /\ Len(requests) = 1
  /\ LastPrinted("table")
  /\ Len(table) = 2

====
